---- MODULE Spec2Model ----
(***************************************************************************)
(* Scene-stack orchestration and frame scheduler of mini-arcade-core:      *)
(*   SceneAdapter  (runtime/adapters.py)  the scene stack and its queries  *)
(*   CommandQueue  (commands.py)          the deferred write path          *)
(*   InputAdapter  (runtime/adapters.py)  the per-frame input builder      *)
(*   Game.run      (game.py)              the frame loop                   *)
(* Time is counted in integer milliseconds.                                *)
(***************************************************************************)
EXTENDS Integers, Sequences, FiniteSets, TLC

\* ------------------------------------------------------------------ bounds
\* frames the loop may start
MaxFrames == 3
\* commands that scenes and hooks may enqueue over a whole run
MaxCmds == 3

\* frames of the input builder's own specification
MaxInputFrames == 2
\* largest coordinate and largest height of a bounced object
MaxCoord == 4
MaxHeight == 4

\* ------------------------------------------------------------- value sets
\* Python's None, where the other values are records
None == [none |-> TRUE]
\* no exception
NoError == "none"
Scenes == 1..(MaxCmds + 1)
\* id(scene): addresses of scene objects
Addrs == 1..(MaxCmds + 3)
\* scene ids known to the registry, and one that is not
Registered == {"menu"}
SceneIds == Registered \cup {"nope"}
Keys == {"K"}
\* ev.key of an event that carries no key
NoKey == "None"
DtValues == {1, 3}
FpsValues == {0, 500}

\* ScenePolicy(): the default policy
DefaultPolicy == [is_opaque |-> FALSE, blocks_update |-> FALSE]
Policies == [is_opaque : BOOLEAN, blocks_update : BOOLEAN]

RECURSIVE Reverse(_)
Reverse(s) == IF s = <<>> THEN <<>> ELSE Append(Reverse(Tail(s)), Head(s))

\* ------------------------------------------------- SceneAdapter queries
\* for idx in range(len(entries) - 1, -1, -1): if opaque: return entries[idx:]
\* variant: the run starts just above the opaque entry
RECURSIVE VisibleScanAbove(_, _)
VisibleScanAbove(entries, idx) ==
  IF idx = 0 THEN entries
  ELSE IF entries[idx].policy.is_opaque
    THEN SubSeq(entries, idx + 1, Len(entries))
  ELSE VisibleScanAbove(entries, idx - 1)

RECURSIVE VisibleScan(_, _)
VisibleScan(entries, idx) ==
  IF idx = 0 THEN entries
  ELSE IF entries[idx].policy.is_opaque THEN SubSeq(entries, idx, Len(entries))
  ELSE VisibleScan(entries, idx - 1)

\* variant: no entry hides the entries below it
visible_entries_whole_stack(st) == st

\* variant: the visible run starts at the topmost entry that is not an overlay
RECURSIVE BaseScan(_, _)
BaseScan(entries, idx) ==
  IF idx = 0 THEN entries
  ELSE IF ~entries[idx].is_overlay THEN SubSeq(entries, idx, Len(entries))
  ELSE BaseScan(entries, idx - 1)

visible_entries_from_base(st) == BaseScan(st, Len(st))

visible_entries(st) == VisibleScan(st, Len(st))

\* for entry in reversed(vis): out.append(entry); if blocks_update: break
\* variant: the walk does not stop at a blocking entry
RECURSIVE UpdateScanNoBreak(_, _, _)
UpdateScanNoBreak(vis, idx, out) ==
  IF idx = 0 THEN out
  ELSE UpdateScanNoBreak(vis, idx - 1, Append(out, vis[idx]))

RECURSIVE UpdateScan(_, _, _)
UpdateScan(vis, idx, out) ==
  IF idx = 0 THEN out
  ELSE IF vis[idx].policy.blocks_update THEN Append(out, vis[idx])
  ELSE UpdateScan(vis, idx - 1, Append(out, vis[idx]))

\* variant: the result is left in top-to-bottom order
update_entries_top_down(st) ==
  LET vis == visible_entries(st)
  IN IF vis = <<>> THEN <<>> ELSE UpdateScan(vis, Len(vis), <<>>)

\* variant: the walk starts from the whole stack instead of the visible run
update_entries_whole_stack(st) ==
  IF st = <<>> THEN <<>> ELSE Reverse(UpdateScan(st, Len(st), <<>>))

update_entries(st) ==
  LET vis == visible_entries(st)
  IN IF vis = <<>> THEN <<>> ELSE Reverse(UpdateScan(vis, Len(vis), <<>>))

\* variant: an empty stack yields a placeholder entry instead of None
input_entry_placeholder(st) ==
  LET vis == visible_entries(st)
  IN IF vis = <<>>
       THEN [scene_id |-> "menu", scene |-> 1, addr |-> 1, is_overlay |-> FALSE,
             policy |-> DefaultPolicy]
     ELSE vis[Len(vis)]

\* variant: input goes to the lowest visible entry
input_entry_lowest_visible(st) ==
  LET vis == visible_entries(st)
  IN IF vis = <<>> THEN None ELSE vis[1]

input_entry_of(st) ==
  LET vis == visible_entries(st)
  IN IF vis = <<>> THEN None ELSE vis[Len(vis)]

\* ------------------------------------------------------ InputAdapter.build
\* one event of the batch applied to <<_down, pressed, released, quit_req>>
BuildStep(acc, ev) ==
  IF ev.type = "QUIT"
    THEN [acc EXCEPT !.quit = TRUE]
  ELSE IF ev.type = "KEYDOWN" /\ ev.key # NoKey
    THEN [acc EXCEPT !.pressed = IF ev.key \notin acc.down THEN @ \cup {ev.key} ELSE @,
                     !.down = @ \cup {ev.key}]
  ELSE IF ev.type = "KEYUP" /\ ev.key # NoKey
    THEN [acc EXCEPT !.down = @ \ {ev.key},
                     !.released = @ \cup {ev.key}]
  ELSE acc

RECURSIVE BuildFold(_, _)
BuildFold(acc, events) ==
  IF events = <<>> THEN acc ELSE BuildFold(BuildStep(acc, Head(events)), Tail(events))

BuildAcc(d, events) ==
  BuildFold([down |-> d, pressed |-> {}, released |-> {}, quit |-> FALSE], events)

\* variant: a builder that forgets the held keys between frames
build_from_scratch(d, events, fi, t) ==
  LET acc == BuildAcc({}, events)
  IN [frame_index |-> fi, dt |-> t, keys_down |-> acc.down,
      keys_pressed |-> acc.pressed, keys_released |-> acc.released,
      quit |-> acc.quit]

\* the InputFrame returned by build
build(d, events, fi, t) ==
  LET acc == BuildAcc(d, events)
  IN [frame_index |-> fi, dt |-> t, keys_down |-> acc.down,
      keys_pressed |-> acc.pressed, keys_released |-> acc.released,
      quit |-> acc.quit]

\* InputFrame(frame_index=..., dt=...): every other field at its default
InputFrameDefaults(fi, t) ==
  [frame_index |-> fi, dt |-> t, keys_down |-> {},
   keys_pressed |-> {}, keys_released |-> {}, quit |-> FALSE]

_neutral_input(fi, t) == InputFrameDefaults(fi, t)

\* ------------------------------------------------------------ CommandQueue
push(q, cmd) == Append(q, cmd)
\* variant: drain hands the commands out last-in first-out
DrainReturnLifo(q) == Reverse(q)
\* variant: drain does not reset the buffer
DrainRestKept(q) == q
\* items = self._items; self._items = []; return items
DrainReturn(q) == q
DrainRest(q) == <<>>

\* ---------------------------------------------------------------- commands
QuitCommand == [k |-> "Quit"]
ScreenshotCommand == [k |-> "Screenshot"]
PopSceneCommand == [k |-> "Pop"]
PushSceneCommand(sid, ov) ==
  [k |-> "Push", scene_id |-> sid, as_overlay |-> ov, policy |-> None]
ChangeSceneCommand(sid) == [k |-> "Change", scene_id |-> sid]
\* a game-defined Command whose execute calls
\* services.scenes.push(scene_id, as_overlay=..., policy=...)
PushPolicyCommand(sid, ov, pol) ==
  [k |-> "Push", scene_id |-> sid, as_overlay |-> ov, policy |-> pol]

\* a game-defined Command whose execute calls
\* services.files.write_text(path, text)
WriteTextCommand == [k |-> "WriteText"]

\* the commands a scene's tick may enqueue
SceneCmds ==
  {QuitCommand, ScreenshotCommand, WriteTextCommand, PopSceneCommand,
   PushSceneCommand("menu", FALSE), PushSceneCommand("nope", FALSE),
   ChangeSceneCommand("menu"), ChangeSceneCommand("nope")}
  \cup {PushPolicyCommand("menu", TRUE, p) : p \in Policies \ {DefaultPolicy}}
\* the commands an on_enter hook may enqueue
HookCmds == {PopSceneCommand}

\* ------------------------------------------------ SceneAdapter operations
\* a lifecycle hook call: which hook, of which scene, and how many entries
\* the stack holds while the hook runs
Hook(name, s, seen) == [h |-> name, scene |-> s, seen |-> seen]

\* variant: the top entry is removed without its exit hook
pop_without_exit(st) ==
  IF st = <<>> THEN [stack |-> st, hooks |-> <<>>]
  ELSE [stack |-> SubSeq(st, 1, Len(st) - 1), hooks |-> <<>>]

\* variant: the exit hook runs while the entry is still on the stack
pop_exits_before_removal(st) ==
  IF st = <<>> THEN [stack |-> st, hooks |-> <<>>]
  ELSE [stack |-> SubSeq(st, 1, Len(st) - 1),
        hooks |-> <<Hook("on_exit", st[Len(st)].scene, Len(st))>>]

\* item = self._stack.pop(); item.entry.scene.on_exit()
pop(st) ==
  IF st = <<>> THEN [stack |-> st, hooks |-> <<>>]
  ELSE [stack |-> SubSeq(st, 1, Len(st) - 1),
        hooks |-> <<Hook("on_exit", st[Len(st)].scene, Len(st) - 1)>>]

\* variant: the entries are exited from the bottom of the stack upwards
clean_bottom_up(st) ==
  [stack |-> <<>>,
   hooks |-> [j \in 1..Len(st) |-> Hook("on_exit", st[j].scene, Len(st) - j)]]

\* while self._stack: self.pop()
RECURSIVE clean(_)
clean(st) ==
  IF st = <<>> THEN [stack |-> st, hooks |-> <<>>]
  ELSE LET p == pop(st)
           r == clean(p.stack)
       IN [stack |-> r.stack, hooks |-> p.hooks \o r.hooks]

\* self._registry.create(scene_id, self._game): fails for an unknown id
CreateFails(sid) == sid \notin Registered

\* variant: a push without a policy blocks the updates below it
PolicyOrBlocking(pol) ==
  IF pol = None THEN [is_opaque |-> FALSE, blocks_update |-> TRUE] ELSE pol

\* variant: a push without a policy makes the entry opaque
PolicyOrOpaque(pol) ==
  IF pol = None THEN [is_opaque |-> TRUE, blocks_update |-> FALSE] ELSE pol

PolicyOrDefault(pol) == IF pol = None THEN DefaultPolicy ELSE pol

\* variant: the entry is appended before its scene is entered
push_scene_append_first(st, sid, ov, pol, s, a) ==
  IF CreateFails(sid) THEN [stack |-> st, hooks |-> <<>>, err |-> "KeyError"]
  ELSE [stack |-> Append(st, [scene_id |-> sid, scene |-> s, addr |-> a,
                              is_overlay |-> ov,
                              policy |-> PolicyOrDefault(pol)]),
        hooks |-> <<Hook("on_enter", s, Len(st) + 1)>>,
        err |-> NoError]

\* variant: a factory failure is swallowed and the push does nothing
push_scene_swallows_failure(st, sid, ov, pol, s, a) ==
  IF CreateFails(sid) THEN [stack |-> st, hooks |-> <<>>, err |-> NoError]
  ELSE [stack |-> Append(st, [scene_id |-> sid, scene |-> s, addr |-> a,
                              is_overlay |-> ov,
                              policy |-> PolicyOrDefault(pol)]),
        hooks |-> <<Hook("on_enter", s, Len(st))>>,
        err |-> NoError]

\* the scene s (at address a) is created, entered and appended:
\* scene.on_enter() runs before self._stack.append(...)
push_scene(st, sid, ov, pol, s, a) ==
  IF CreateFails(sid) THEN [stack |-> st, hooks |-> <<>>, err |-> "KeyError"]
  ELSE [stack |-> Append(st, [scene_id |-> sid, scene |-> s, addr |-> a,
                              is_overlay |-> ov,
                              policy |-> PolicyOrDefault(pol)]),
        hooks |-> <<Hook("on_enter", s, Len(st))>>,
        err |-> NoError]

\* variant: the new scene is pushed on top of the entries that were there
change_without_clean(st, sid, s, a) == push_scene(st, sid, FALSE, None, s, a)

\* variant: the factory is tried before the stack is cleaned
change_creates_first(st, sid, s, a) ==
  IF CreateFails(sid) THEN [stack |-> st, hooks |-> <<>>, err |-> "KeyError"]
  ELSE LET c == clean(st)
           p == push_scene(c.stack, sid, FALSE, None, s, a)
       IN [stack |-> p.stack, hooks |-> c.hooks \o p.hooks, err |-> p.err]

\* self.clean(); self.push(scene_id, as_overlay=False)
change(st, sid, s, a) ==
  LET c == clean(st)
      p == push_scene(c.stack, sid, FALSE, None, s, a)
  IN [stack |-> p.stack, hooks |-> c.hooks \o p.hooks, err |-> p.err]

\* --------------------------------------------------------------- Game.run
\* target_dt = 1.0 / fps if fps > 0 else 0.0   (milliseconds)
TargetDt(fps) == IF fps > 0 THEN 1000 \div fps ELSE 0

\* variant: the loop sleeps a whole target period after every frame
SleepForWholePeriod(target, t) == IF target > 0 THEN target ELSE 0

\* sleep(target_dt - dt) if target_dt > 0 and dt < target_dt
SleepFor(target, t) == IF target > 0 /\ t < target THEN target - t ELSE 0

\* variant: every ticked scene is handed the real input frame
effective_input_always_real(e, ie, inf, fi, t) == [src |-> "real", frame |-> inf]

\* input_frame if entry is input_entry else _neutral_input(frame_index, dt)
effective_input(e, ie, inf, fi, t) ==
  IF e = ie THEN [src |-> "real", frame |-> inf]
  ELSE [src |-> "neutral", frame |-> _neutral_input(fi, t)]

\* variant: the bootstrap tick is handed a frame with index 0
bootstrap_input_index_zero(fi) ==
  [src |-> "boot", frame |-> _neutral_input(0, 0)]

\* scene.tick(_neutral_input(frame_index, 0.0), 0.0)
BootstrapDt == 0
bootstrap_input(fi) == [src |-> "boot", frame |-> _neutral_input(fi, BootstrapDt)]

\* variant: the commands are drained right after the update loop
AfterDrainBeforeDraw(stage) ==
  CASE stage = "tick" -> "drain"
    [] stage = "exec" -> "begin"
    [] stage = "end" -> "pace"

\* the order of the statements of the loop body: where control goes when
\* the update loop, end_frame and the command loop are done
After(stage) ==
  CASE stage = "tick" -> "begin"
    [] stage = "end" -> "drain"
    [] stage = "exec" -> "pace"

VARIABLES
  pc, err, cfg, running, frame_index, dt, slept,
  stack, items, batch, packet_cache, down,
  input_frame, input_entry, upd, vis, i,
  nextScene, cmdSeq, ticks,
  tickLog, backendLog, hookLog, frameStack, drainMark, lastExec, lastCmd,
  entered, exited, obj, bounds

vars ==
  <<pc, err, cfg, running, frame_index, dt, slept,
    stack, items, batch, packet_cache, down,
    input_frame, input_entry, upd, vis, i,
    nextScene, cmdSeq, ticks,
    tickLog, backendLog, hookLog, frameStack, drainMark, lastExec, lastCmd,
    entered, exited, obj, bounds>>

\* ----------------------------------------------------------------- helpers
Min(S) == CHOOSE x \in S : \A y \in S : x <= y
NoPacket == None
EmptyCache == [a \in Addrs |-> NoPacket]
NeverTicked == [s \in Scenes |-> 0]

\* the scene objects some reference still keeps alive when the stack is st:
\* those on the stack and the one the locals input_entry / entry / scene
\* of run refer to
LiveAddrs(st) ==
  {st[j].addr : j \in 1..Len(st)}
    \cup (IF input_entry = None THEN {} ELSE {input_entry.addr})

\* id() of a scene created when the stack is st: any address no live object
\* has. One that a discarded scene had may come back; the unused ones are
\* interchangeable and the least stands for them.
NewAddrs(st) ==
  LET free == Addrs \ LiveAddrs(st)
      stale == {a \in free : packet_cache[a] # NoPacket}
  IN stale \cup (IF free \ stale = {} THEN {} ELSE {Min(free \ stale)})

\* what a scene does besides returning a packet: it may enqueue a command
\* or call game.quit()
MayEnqueue(cmds) == {None} \cup (IF cmdSeq < MaxCmds THEN cmds ELSE {})
Enqueue(q, c) == IF c = None THEN q ELSE push(q, [n |-> cmdSeq + 1, c |-> c])
Issued(c) == IF c = None THEN cmdSeq ELSE cmdSeq + 1
CallsQuit(c) == IF c = None THEN BOOLEAN ELSE {FALSE}

\* the per-scene count of calls of the hook name, after the calls in hooks
Tally(cnt, hooks, name) ==
  [s \in Scenes |->
     cnt[s] + Cardinality({j \in 1..Len(hooks) :
                             hooks[j].h = name /\ hooks[j].scene = s})]

TickRecord(e, eff, t, pk, ph) ==
  [scene |-> e.scene, src |-> eff.src, inp |-> eff.frame, dt |-> t,
   packet |-> pk, phase |-> ph]

EventSet ==
  {[type |-> "QUIT", key |-> NoKey]}
    \cup [type : {"KEYDOWN", "KEYUP"}, key : Keys]
EventBatches == {<<>>} \cup {<<ev>> : ev \in EventSet}

\* -------------------------------------------------------------------- Init
Init ==
  /\ pc = "new"
  /\ err = NoError
  /\ cfg \in [backend : BOOLEAN, window : BOOLEAN, fps : FpsValues]
  /\ running = FALSE
  /\ frame_index = 0
  /\ dt = 0
  /\ slept = 0
  /\ stack = <<>>
  /\ items = <<>>
  /\ batch = <<>>
  /\ packet_cache = EmptyCache
  /\ down = {}
  /\ input_frame = None
  /\ input_entry = None
  /\ upd = <<>>
  /\ vis = <<>>
  /\ i = 0
  /\ nextScene = 1
  /\ cmdSeq = 0
  /\ ticks = NeverTicked
  /\ tickLog = <<>>
  /\ backendLog = <<>>
  /\ hookLog = <<>>
  /\ entered = NeverTicked
  /\ exited = NeverTicked
  /\ obj = None
  /\ bounds = None
  /\ frameStack = <<>>
  /\ drainMark = 0
  /\ lastExec = 0
  /\ lastCmd = None

\* ---------------------------------------------------------- Game.__init__
ConstructFails ==
  /\ pc = "new"
  /\ ~cfg.backend
  /\ pc' = "raised"
  /\ err' = "ValueError"
  /\ UNCHANGED <<cfg, obj, bounds, running, frame_index, dt, slept, stack, items, batch,
                 packet_cache, down, input_frame, input_entry, upd, vis, i,
                 nextScene, cmdSeq, ticks, tickLog, backendLog, hookLog, entered, exited,
                 frameStack, drainMark, lastExec, lastCmd>>

Construct ==
  /\ pc = "new"
  /\ cfg.backend
  /\ pc' = "ready"
  /\ running' = FALSE
  /\ stack' = <<>>
  /\ items' = <<>>
  /\ down' = {}
  /\ UNCHANGED <<err, cfg, obj, bounds, frame_index, dt, slept, batch,
                 packet_cache, input_frame, input_entry, upd, vis, i,
                 nextScene, cmdSeq, ticks, tickLog, backendLog, hookLog, entered, exited,
                 frameStack, drainMark, lastExec, lastCmd>>

\* ------------------------------------------- Game.run, up to the loop
\* variant: the window is set up before the configuration is checked
RunNoWindowLate ==
  /\ pc = "ready"
  /\ ~cfg.window
  /\ pc' = "raised"
  /\ err' = "ValueError"
  /\ backendLog' = <<[op |-> "init"]>>
  /\ UNCHANGED <<cfg, obj, bounds, running, frame_index, dt, slept, stack, items, batch,
                 packet_cache, down, input_frame, input_entry, upd, vis, i,
                 nextScene, cmdSeq, ticks, tickLog, hookLog, entered, exited,
                 frameStack, drainMark, lastExec, lastCmd>>

RunNoWindow ==
  /\ pc = "ready"
  /\ ~cfg.window
  /\ pc' = "raised"
  /\ err' = "ValueError"
  /\ UNCHANGED <<cfg, obj, bounds, running, frame_index, dt, slept, stack, items, batch,
                 packet_cache, down, input_frame, input_entry, upd, vis, i,
                 nextScene, cmdSeq, ticks, tickLog, backendLog, hookLog, entered, exited,
                 frameStack, drainMark, lastExec, lastCmd>>

RunStart ==
  /\ pc = "ready"
  /\ cfg.window
  /\ \E sid \in SceneIds, a \in NewAddrs(clean(stack).stack),
        c \in MayEnqueue(HookCmds) :
       LET r == change(stack, sid, nextScene, a)
       IN /\ stack' = r.stack
          /\ hookLog' = r.hooks
          /\ entered' = Tally(entered, r.hooks, "on_enter")
          /\ exited' = Tally(exited, r.hooks, "on_exit")
          /\ backendLog' = <<[op |-> "init"]>>
          /\ IF r.err # NoError
               THEN /\ pc' = "raised"
                    /\ err' = r.err
                    /\ c = None
                    /\ UNCHANGED <<running, nextScene, items, cmdSeq>>
               ELSE /\ pc' = "poll"
                    /\ running' = TRUE
                    /\ nextScene' = nextScene + 1
                    /\ items' = Enqueue(items, c)
                    /\ cmdSeq' = Issued(c)
                    /\ UNCHANGED err
  /\ frame_index' = 0
  /\ packet_cache' = EmptyCache
  /\ UNCHANGED <<cfg, obj, bounds, dt, slept, batch, down, input_frame, input_entry,
                 upd, vis, i, ticks, tickLog, frameStack, drainMark,
                 lastExec, lastCmd>>

\* ------------------------------------------------- Game.run, the frame loop
\* while self._running: false
LoopExit ==
  /\ pc = "poll"
  /\ ~running
  /\ pc' = "clean"
  /\ UNCHANGED <<err, cfg, obj, bounds, running, frame_index, dt, slept, stack, items,
                 batch, packet_cache, down, input_frame, input_entry, upd,
                 vis, i, nextScene, cmdSeq, ticks, tickLog, backendLog,
                 hookLog, entered, exited, frameStack, drainMark, lastExec, lastCmd>>

\* the frame up to the input_entry check, for one polled batch of events
Poll(events, t) ==
  /\ pc = "poll"
  /\ running
  /\ frame_index < MaxFrames
  /\ dt' = t
  /\ input_frame' = build(down, events, frame_index, t)
  /\ down' = BuildAcc(down, events).down
  /\ tickLog' = <<>>
  /\ backendLog' = <<>>
  /\ UNCHANGED <<err, cfg, obj, bounds, running, frame_index, slept, stack, batch,
                 packet_cache, nextScene, ticks, hookLog, entered, exited, drainMark,
                 lastExec, lastCmd>>

\* variant: the quit event enqueues QuitCommand and the frame goes on
PollQuitGoesOn ==
  \E events \in EventBatches, t \in DtValues :
    /\ Poll(events, t)
    /\ input_frame'.quit
    /\ items' = push(items, [n |-> cmdSeq + 1, c |-> QuitCommand])
    /\ cmdSeq' = cmdSeq + 1
    /\ input_entry_of(stack) # None
    /\ input_entry' = input_entry_of(stack)
    /\ frameStack' = stack
    /\ upd' = update_entries(stack)
    /\ i' = 1
    /\ pc' = "tick"
    /\ UNCHANGED vis

\* if input_frame.quit: self._commands.push(QuitCommand()); break
PollQuit ==
  \E events \in EventBatches, t \in DtValues :
    /\ Poll(events, t)
    /\ input_frame'.quit
    /\ items' = push(items, [n |-> cmdSeq + 1, c |-> QuitCommand])
    /\ cmdSeq' = cmdSeq + 1
    /\ pc' = "clean"
    /\ UNCHANGED <<input_entry, upd, vis, i, frameStack>>

\* input_entry is None: break
PollEmpty ==
  \E events \in EventBatches, t \in DtValues :
    /\ Poll(events, t)
    /\ ~input_frame'.quit
    /\ input_entry_of(stack) = None
    /\ input_entry' = None
    /\ frameStack' = stack
    /\ pc' = "clean"
    /\ UNCHANGED <<items, cmdSeq, upd, vis, i>>

\* the frame goes on: for entry in self.services.scenes.update_entries()
PollFrame ==
  \E events \in EventBatches, t \in DtValues :
    /\ Poll(events, t)
    /\ ~input_frame'.quit
    /\ input_entry_of(stack) # None
    /\ input_entry' = input_entry_of(stack)
    /\ frameStack' = stack
    /\ upd' = update_entries(stack)
    /\ i' = 1
    /\ pc' = "tick"
    /\ UNCHANGED <<items, cmdSeq, vis>>

\* variant: the update pass does not cache the packet it gets
TickEntryNoCache ==
  /\ pc = "tick"
  /\ i <= Len(upd)
  /\ \E c \in MayEnqueue(SceneCmds) : \E q \in CallsQuit(c) :
       LET e == upd[i]
           eff == effective_input(e, input_entry, input_frame, frame_index, dt)
           pk == [scene |-> e.scene, n |-> ticks[e.scene] + 1]
       IN /\ ticks' = [ticks EXCEPT ![e.scene] = @ + 1]
          /\ tickLog' = Append(tickLog, TickRecord(e, eff, dt, pk, "update"))
          /\ items' = Enqueue(items, c)
          /\ cmdSeq' = Issued(c)
          /\ running' = IF q THEN FALSE ELSE running
  /\ i' = i + 1
  /\ pc' = IF i = Len(upd) THEN After("tick") ELSE pc
  /\ UNCHANGED <<err, cfg, obj, bounds, frame_index, dt, slept, stack, batch, down,
                 input_frame, input_entry, upd, vis, nextScene, backendLog,
                 hookLog, entered, exited, frameStack, drainMark, lastExec,
                 lastCmd, packet_cache>>

\* packet = scene.tick(effective_input, dt); packet_cache[id(scene)] = packet
TickEntry ==
  /\ pc = "tick"
  /\ i <= Len(upd)
  /\ \E c \in MayEnqueue(SceneCmds) : \E q \in CallsQuit(c) :
       LET e == upd[i]
           eff == effective_input(e, input_entry, input_frame, frame_index, dt)
           pk == [scene |-> e.scene, n |-> ticks[e.scene] + 1]
       IN /\ ticks' = [ticks EXCEPT ![e.scene] = @ + 1]
          /\ packet_cache' = [packet_cache EXCEPT ![e.addr] = pk]
          /\ tickLog' = Append(tickLog, TickRecord(e, eff, dt, pk, "update"))
          /\ items' = Enqueue(items, c)
          /\ cmdSeq' = Issued(c)
          /\ running' = IF q THEN FALSE ELSE running
  /\ i' = i + 1
  /\ pc' = IF i = Len(upd) THEN After("tick") ELSE pc
  /\ UNCHANGED <<err, cfg, obj, bounds, frame_index, dt, slept, stack, batch, down,
                 input_frame, input_entry, upd, vis, nextScene, backendLog,
                 hookLog, entered, exited, frameStack, drainMark, lastExec, lastCmd>>

\* variant: the visible entries are replayed without begin_frame
BeginFrameUnbracketed ==
  /\ pc = "begin"
  /\ vis' = visible_entries(stack)
  /\ i' = 1
  /\ pc' = IF visible_entries(stack) = <<>> THEN "end" ELSE "draw"
  /\ UNCHANGED <<err, cfg, obj, bounds, running, frame_index, dt, slept, stack, items,
                 batch, packet_cache, down, input_frame, input_entry, upd,
                 nextScene, cmdSeq, ticks, tickLog, backendLog, hookLog, entered,
                 exited, frameStack, drainMark, lastExec, lastCmd>>

\* backend.begin_frame(); for entry in self.services.scenes.visible_entries()
BeginFrame ==
  /\ pc = "begin"
  /\ backendLog' = Append(backendLog, [op |-> "begin_frame"])
  /\ vis' = visible_entries(stack)
  /\ i' = 1
  /\ pc' = IF visible_entries(stack) = <<>> THEN "end" ELSE "draw"
  /\ UNCHANGED <<err, cfg, obj, bounds, running, frame_index, dt, slept, stack, items,
                 batch, packet_cache, down, input_frame, input_entry, upd,
                 nextScene, cmdSeq, ticks, tickLog, hookLog, entered, exited, frameStack,
                 drainMark, lastExec, lastCmd>>

DrawOp(e, pk) == [op |-> "draw_packet", scene |-> e.scene, packet |-> pk]

\* packet = packet_cache.get(id(scene)) is there: pipeline.draw_packet
DrawCached ==
  /\ pc = "draw"
  /\ i <= Len(vis)
  /\ packet_cache[vis[i].addr] # NoPacket
  /\ backendLog' = Append(backendLog, DrawOp(vis[i], packet_cache[vis[i].addr]))
  /\ i' = i + 1
  /\ pc' = IF i = Len(vis) THEN "end" ELSE pc
  /\ UNCHANGED <<err, cfg, obj, bounds, running, frame_index, dt, slept, stack, items,
                 batch, packet_cache, down, input_frame, input_entry, upd,
                 vis, nextScene, cmdSeq, ticks, tickLog, hookLog, entered, exited, frameStack,
                 drainMark, lastExec, lastCmd>>

\* packet is None: bootstrap tick, cache, pipeline.draw_packet
DrawBootstrap ==
  /\ pc = "draw"
  /\ i <= Len(vis)
  /\ packet_cache[vis[i].addr] = NoPacket
  /\ \E c \in MayEnqueue(SceneCmds) : \E q \in CallsQuit(c) :
       LET e == vis[i]
           eff == bootstrap_input(frame_index)
           pk == [scene |-> e.scene, n |-> ticks[e.scene] + 1]
       IN /\ ticks' = [ticks EXCEPT ![e.scene] = @ + 1]
          /\ packet_cache' = [packet_cache EXCEPT ![e.addr] = pk]
          /\ tickLog' = Append(tickLog, TickRecord(e, eff, BootstrapDt, pk, "draw"))
          /\ backendLog' = Append(backendLog, DrawOp(e, pk))
          /\ items' = Enqueue(items, c)
          /\ cmdSeq' = Issued(c)
          /\ running' = IF q THEN FALSE ELSE running
  /\ i' = i + 1
  /\ pc' = IF i = Len(vis) THEN "end" ELSE pc
  /\ UNCHANGED <<err, cfg, obj, bounds, frame_index, dt, slept, stack, batch, down,
                 input_frame, input_entry, upd, vis, nextScene, hookLog, entered, exited,
                 frameStack, drainMark, lastExec, lastCmd>>

\* backend.end_frame()
EndFrame ==
  /\ pc = "end"
  /\ backendLog' = Append(backendLog, [op |-> "end_frame"])
  /\ pc' = After("end")
  /\ UNCHANGED <<err, cfg, obj, bounds, running, frame_index, dt, slept, stack, items,
                 batch, packet_cache, down, input_frame, input_entry, upd,
                 vis, i, nextScene, cmdSeq, ticks, tickLog, hookLog, entered, exited,
                 frameStack, drainMark, lastExec, lastCmd>>

\* self._commands.drain()
Drain ==
  /\ pc = "drain"
  /\ batch' = DrainReturn(items)
  /\ items' = DrainRest(items)
  /\ drainMark' = cmdSeq
  /\ pc' = IF DrainReturn(items) = <<>> THEN After("exec") ELSE "exec"
  /\ UNCHANGED <<err, cfg, obj, bounds, running, frame_index, dt, slept, stack,
                 packet_cache, down, input_frame, input_entry, upd, vis, i,
                 nextScene, cmdSeq, ticks, tickLog, backendLog, hookLog, entered, exited,
                 frameStack, lastExec, lastCmd>>

\* for cmd in <drained batch>: cmd.execute(self.services)
\* the part every command execution shares: the loop takes the next command
Exec(kind) ==
  /\ pc = "exec"
  /\ batch # <<>>
  /\ Head(batch).c.k = kind
  /\ batch' = Tail(batch)
  /\ lastExec' = Head(batch).n
  /\ lastCmd' = Head(batch).c
  /\ UNCHANGED <<cfg, obj, bounds, frame_index, dt, slept, packet_cache, down,
                 input_frame, input_entry, upd, vis, i, ticks, tickLog,
                 backendLog, frameStack, drainMark>>

\* variant: the command loop is left as soon as the game stops running
ExecDoneStopsOnQuit ==
  pc' = (IF Tail(batch) = <<>> \/ ~running \/ Head(batch).c = QuitCommand
           THEN After("exec") ELSE "exec")

ExecDone == pc' = (IF Tail(batch) = <<>> THEN After("exec") ELSE "exec")

\* variant: quit also pops the top entry
ExecQuitPops ==
  /\ Exec("Quit")
  /\ running' = FALSE
  /\ stack' = pop(stack).stack
  /\ hookLog' = pop(stack).hooks
  /\ entered' = Tally(entered, pop(stack).hooks, "on_enter")
  /\ exited' = Tally(exited, pop(stack).hooks, "on_exit")
  /\ ExecDone
  /\ UNCHANGED <<err, items, nextScene, cmdSeq>>

\* QuitCommand.execute: services.scenes.quit() -> game.quit()
ExecQuit ==
  /\ Exec("Quit")
  /\ running' = FALSE
  /\ hookLog' = <<>>
  /\ entered' = Tally(entered, <<>>, "on_enter")
  /\ exited' = Tally(exited, <<>>, "on_exit")
  /\ ExecDone
  /\ UNCHANGED <<err, stack, items, nextScene, cmdSeq>>

\* PopSceneCommand.execute: services.scenes.pop()
ExecPop ==
  /\ Exec("Pop")
  /\ stack' = pop(stack).stack
  /\ hookLog' = pop(stack).hooks
  /\ entered' = Tally(entered, pop(stack).hooks, "on_enter")
  /\ exited' = Tally(exited, pop(stack).hooks, "on_exit")
  /\ ExecDone
  /\ UNCHANGED <<err, running, items, nextScene, cmdSeq>>

\* PushSceneCommand.execute: services.scenes.push(scene_id, as_overlay=...)
ExecPush ==
  /\ Exec("Push")
  /\ ~CreateFails(Head(batch).c.scene_id)
  /\ \E a \in NewAddrs(stack), c \in MayEnqueue(HookCmds) :
       LET cmd == Head(batch).c
           r == push_scene(stack, cmd.scene_id, cmd.as_overlay, cmd.policy,
                           nextScene, a)
       IN /\ stack' = r.stack
          /\ hookLog' = r.hooks
          /\ entered' = Tally(entered, r.hooks, "on_enter")
          /\ exited' = Tally(exited, r.hooks, "on_exit")
          /\ items' = Enqueue(items, c)
          /\ cmdSeq' = Issued(c)
  /\ nextScene' = nextScene + 1
  /\ ExecDone
  /\ UNCHANGED <<err, running>>

\* the factory fails: the error leaves execute and run
ExecPushFails ==
  /\ Exec("Push")
  /\ CreateFails(Head(batch).c.scene_id)
  /\ LET cmd == Head(batch).c
         r == push_scene(stack, cmd.scene_id, cmd.as_overlay, cmd.policy,
                         nextScene, Min(Addrs))
     IN /\ stack' = r.stack
        /\ hookLog' = r.hooks
        /\ entered' = Tally(entered, r.hooks, "on_enter")
        /\ exited' = Tally(exited, r.hooks, "on_exit")
        /\ err' = r.err
  /\ pc' = "raised"
  /\ UNCHANGED <<running, items, nextScene, cmdSeq>>

\* ChangeSceneCommand.execute: services.scenes.change(scene_id)
ExecChange ==
  /\ Exec("Change")
  /\ ~CreateFails(Head(batch).c.scene_id)
  /\ \E a \in NewAddrs(clean(stack).stack), c \in MayEnqueue(HookCmds) :
       LET r == change(stack, Head(batch).c.scene_id, nextScene, a)
       IN /\ stack' = r.stack
          /\ hookLog' = r.hooks
          /\ entered' = Tally(entered, r.hooks, "on_enter")
          /\ exited' = Tally(exited, r.hooks, "on_exit")
          /\ items' = Enqueue(items, c)
          /\ cmdSeq' = Issued(c)
  /\ nextScene' = nextScene + 1
  /\ ExecDone
  /\ UNCHANGED <<err, running>>

ExecChangeFails ==
  /\ Exec("Change")
  /\ CreateFails(Head(batch).c.scene_id)
  /\ LET r == change(stack, Head(batch).c.scene_id, nextScene, Min(Addrs))
     IN /\ stack' = r.stack
        /\ hookLog' = r.hooks
        /\ entered' = Tally(entered, r.hooks, "on_enter")
        /\ exited' = Tally(exited, r.hooks, "on_exit")
        /\ err' = r.err
  /\ pc' = "raised"
  /\ UNCHANGED <<running, items, nextScene, cmdSeq>>

\* ScreenshotCommand.execute: services.capture.screenshot(label=..., mode="manual")
\* CaptureAdapter.screenshot(self, label=None) takes no mode: TypeError
ScreenshotRaises == "TypeError"

ExecScreenshot ==
  /\ Exec("Screenshot")
  /\ err' = ScreenshotRaises
  /\ hookLog' = <<>>
  /\ entered' = Tally(entered, <<>>, "on_enter")
  /\ exited' = Tally(exited, <<>>, "on_exit")
  /\ pc' = "raised"
  /\ UNCHANGED <<running, stack, items, nextScene, cmdSeq>>

\* LocalFilesAdapter.write_text: open(path, "w") and f.write(text) succeed
ExecWriteText ==
  /\ Exec("WriteText")
  /\ hookLog' = <<>>
  /\ entered' = Tally(entered, <<>>, "on_enter")
  /\ exited' = Tally(exited, <<>>, "on_exit")
  /\ ExecDone
  /\ UNCHANGED <<err, running, stack, items, nextScene, cmdSeq>>

\* variant: the scenes are cleaned before the error leaves run
ExecWriteTextFailsThenCleans ==
  /\ Exec("WriteText")
  /\ err' = "OSError"
  /\ stack' = clean(stack).stack
  /\ hookLog' = clean(stack).hooks
  /\ entered' = Tally(entered, clean(stack).hooks, "on_enter")
  /\ exited' = Tally(exited, clean(stack).hooks, "on_exit")
  /\ pc' = "raised"
  /\ UNCHANGED <<running, items, nextScene, cmdSeq>>

\* open() or f.write() fails: the OSError leaves write_text, execute and run
WriteTextRaises == "OSError"

ExecWriteTextFails ==
  /\ Exec("WriteText")
  /\ err' = WriteTextRaises
  /\ hookLog' = <<>>
  /\ entered' = Tally(entered, <<>>, "on_enter")
  /\ exited' = Tally(exited, <<>>, "on_exit")
  /\ pc' = "raised"
  /\ UNCHANGED <<running, stack, items, nextScene, cmdSeq>>

\* if target_dt > 0 and dt < target_dt: sleep(...); frame_index += 1
Pace ==
  /\ pc = "pace"
  /\ slept' = SleepFor(TargetDt(cfg.fps), dt)
  /\ frame_index' = frame_index + 1
  /\ pc' = "poll"
  /\ UNCHANGED <<err, cfg, obj, bounds, running, dt, stack, items, batch, packet_cache,
                 down, input_frame, input_entry, upd, vis, i, nextScene,
                 cmdSeq, ticks, tickLog, backendLog, hookLog, entered, exited, frameStack,
                 drainMark, lastExec, lastCmd>>

\* variant: run returns without exiting the scenes left on the stack
FinalCleanSkipped ==
  /\ pc = "clean"
  /\ pc' = "done"
  /\ hookLog' = <<>>
  /\ UNCHANGED <<err, cfg, obj, bounds, running, frame_index, dt, slept, stack, items,
                 batch, packet_cache, down, input_frame, input_entry, upd,
                 vis, i, nextScene, cmdSeq, ticks, tickLog, backendLog,
                 entered, exited, frameStack, drainMark, lastExec, lastCmd>>

\* after the loop: self.services.scenes.clean()
FinalClean ==
  /\ pc = "clean"
  /\ stack' = clean(stack).stack
  /\ hookLog' = clean(stack).hooks
  /\ entered' = Tally(entered, clean(stack).hooks, "on_enter")
  /\ exited' = Tally(exited, clean(stack).hooks, "on_exit")
  /\ pc' = "done"
  /\ UNCHANGED <<err, cfg, obj, bounds, running, frame_index, dt, slept, items, batch,
                 packet_cache, down, input_frame, input_entry, upd, vis, i,
                 nextScene, cmdSeq, ticks, tickLog, backendLog, frameStack,
                 drainMark, lastExec, lastCmd>>

Next ==
  \/ ConstructFails
  \/ Construct
  \/ RunNoWindow
  \/ RunStart
  \/ LoopExit
  \/ PollQuit
  \/ PollEmpty
  \/ PollFrame
  \/ TickEntry
  \/ BeginFrame
  \/ DrawCached
  \/ DrawBootstrap
  \/ EndFrame
  \/ Drain
  \/ ExecQuit
  \/ ExecPop
  \/ ExecPush
  \/ ExecPushFails
  \/ ExecChange
  \/ ExecChangeFails
  \/ ExecScreenshot
  \/ ExecWriteText
  \/ ExecWriteTextFails
  \/ Pace
  \/ FinalClean

Spec == Init /\ [][Next]_vars

\* --------------------------------------------------- InputAdapter on its own
\* everything but pc, cfg, obj and bounds, as a newly constructed Game has it
Fresh ==
  /\ err = NoError
  /\ running = FALSE
  /\ frame_index = 0
  /\ dt = 0
  /\ slept = 0
  /\ stack = <<>>
  /\ items = <<>>
  /\ batch = <<>>
  /\ packet_cache = EmptyCache
  /\ down = {}
  /\ input_frame = None
  /\ input_entry = None
  /\ upd = <<>>
  /\ vis = <<>>
  /\ i = 0
  /\ nextScene = 1
  /\ cmdSeq = 0
  /\ ticks = NeverTicked
  /\ tickLog = <<>>
  /\ backendLog = <<>>
  /\ hookLog = <<>>
  /\ entered = NeverTicked
  /\ exited = NeverTicked
  /\ frameStack = <<>>
  /\ drainMark = 0
  /\ lastExec = 0
  /\ lastCmd = None

InputKeys == {"K", "L"}
InputEvents ==
  {[type |-> "QUIT", key |-> NoKey], [type |-> "KEYDOWN", key |-> NoKey]}
    \cup [type : {"KEYDOWN", "KEYUP"}, key : InputKeys]
\* what backend.poll_events() may return in one frame
InputBatches ==
  {<<>>} \cup {<<a>> : a \in InputEvents}
         \cup {<<a, b>> : a \in InputEvents, b \in InputEvents}

InputInit ==
  /\ pc = "input"
  /\ cfg = [backend |-> TRUE, window |-> TRUE, fps |-> 0]
  /\ obj = None
  /\ bounds = None
  /\ Fresh

\* events = list(backend.poll_events());
\* input_frame = self.services.input.build(events, frame_index, dt)
\* frame after frame, until a frame reports quit; backendLog keeps every
\* polled batch
BuildFrame ==
  /\ pc = "input"
  /\ frame_index < MaxInputFrames
  /\ IF input_frame = None THEN TRUE ELSE ~input_frame.quit
  /\ \E events \in InputBatches, t \in DtValues :
       /\ dt' = t
       /\ input_frame' = build(down, events, frame_index, t)
       /\ down' = BuildAcc(down, events).down
       /\ backendLog' =
            Append(backendLog, [op |-> "poll_events", events |-> events])
  /\ frame_index' = frame_index + 1
  /\ UNCHANGED <<pc, err, cfg, obj, bounds, running, slept, stack, items,
                 batch, packet_cache, input_entry, upd, vis, i, nextScene,
                 cmdSeq, ticks, tickLog, hookLog, entered, exited,
                 frameStack, drainMark, lastExec, lastCmd>>

InputNext == BuildFrame

InputSpec == InputInit /\ [][InputNext]_vars

\* ------------------------------------------------- VerticalBounce on its own
\* if obj.position.y <= top: obj.position.y = top; obj.velocity.vy *= -1
\* if obj.position.y + obj.size.height >= bottom:
\*     obj.position.y = bottom - obj.size.height; obj.velocity.vy *= -1
apply(b, o) ==
  LET o1 == IF o.y <= b.top THEN [o EXCEPT !.y = b.top, !.vy = -o.vy] ELSE o
  IN IF o1.y + o1.height >= b.bottom
       THEN [o1 EXCEPT !.y = b.bottom - o1.height, !.vy = -o1.vy]
     ELSE o1

\* bounds with top above bottom, and objects around and inside them
BoundsSet == {b \in [top : 0..1, bottom : 2..MaxCoord] : b.top < b.bottom}
Objects == [y : (-1)..(MaxCoord + 1), height : 1..MaxHeight, vy : {-2, 0, 1}]

BounceInit ==
  /\ pc = "bounce"
  /\ cfg = [backend |-> TRUE, window |-> TRUE, fps |-> 0]
  /\ bounds \in BoundsSet
  /\ obj \in Objects
  /\ Fresh

\* VerticalBounce(bounds).apply(obj)
Bounce ==
  /\ pc = "bounce"
  /\ obj' = apply(bounds, obj)
  /\ pc' = "bounced"
  /\ UNCHANGED <<err, cfg, bounds, running, frame_index, dt, slept, stack,
                 items, batch, packet_cache, down, input_frame, input_entry,
                 upd, vis, i, nextScene, cmdSeq, ticks, tickLog, backendLog,
                 hookLog, entered, exited, frameStack, drainMark, lastExec,
                 lastCmd>>

BounceNext == Bounce

BounceSpec == BounceInit /\ [][BounceNext]_vars

\* ================================================================= claims
Max(S) == CHOOSE x \in S : \A y \in S : x >= y
OpaqueAt(st) == {j \in 1..Len(st) : st[j].policy.is_opaque}
BlockingAt(st) == {j \in 1..Len(st) : st[j].policy.blocks_update}

\* C1: visible_entries() is the suffix of the stack that starts at the
\* topmost opaque entry (inclusive); with no opaque entry it is the whole
\* stack, and for the empty stack it is empty.
C1_VisibleIsSuffixFromTopmostOpaque ==
  LET v == visible_entries(stack)
  IN /\ (stack = <<>> => v = <<>>)
     /\ (OpaqueAt(stack) = {} => v = stack)
     /\ (OpaqueAt(stack) # {} =>
           v = SubSeq(stack, Max(OpaqueAt(stack)), Len(stack)))

\* an opaque entry strictly inside the stack: a proper suffix of two or more
C1_Witness ==
  /\ Len(stack) >= 3
  /\ OpaqueAt(stack) # {}
  /\ Max(OpaqueAt(stack)) \in 2..(Len(stack) - 1)
  /\ Len(visible_entries(stack)) = Len(stack) - Max(OpaqueAt(stack)) + 1

\* C2: update_entries() is the top-aligned run of visible_entries(), in the
\* same bottom-to-top order, whose lowest element is the first blocking
\* entry met from the top (included), or the bottom of the visible run.
C2_UpdateIsTopRunOfVisible ==
  LET v == visible_entries(stack)
      u == update_entries(stack)
  IN u = SubSeq(v, IF BlockingAt(v) = {} THEN 1 ELSE Max(BlockingAt(v)), Len(v))

\* a blocking entry strictly inside the visible run, with an entry above it
C2_Witness ==
  LET v == visible_entries(stack)
  IN /\ BlockingAt(v) # {}
     /\ Max(BlockingAt(v)) \in 2..(Len(v) - 1)
     /\ Len(update_entries(stack)) = Len(v) - Max(BlockingAt(v)) + 1

\* ----------------------------------------------- one frame, as it was logged
TickIdx == 1..Len(tickLog)
TickedScenes == {tickLog[j].scene : j \in TickIdx}
DrawOps == SelectSeq(backendLog, LAMBDA o : o.op = "draw_packet")
DrawnScenes == {DrawOps[j].scene : j \in 1..Len(DrawOps)}
SceneSeq(entries) == [j \in 1..Len(entries) |-> entries[j].scene]
\* the frame has ticked and drawn, and its stack is still frameStack
FrameDrawn == pc \in {"drain", "exec", "pace"}
NoKeyData(f) ==
  /\ f.keys_down = {}
  /\ f.keys_pressed = {}
  /\ f.keys_released = {}
  /\ f.quit = FALSE
RealTicks == {j \in TickIdx : tickLog[j].src = "real"}

\* C3 as stated: one tick gets the real frame, it is the input entry's, and
\* every other tick of the frame gets a neutral frame with the real frame's
\* frame_index and dt.
C3_OthersGetSameDt ==
  tickLog # <<>> =>
    /\ input_entry = visible_entries(frameStack)[Len(visible_entries(frameStack))]
    /\ (pc # "tick" => Cardinality(RealTicks) = 1)
    /\ \A j \in TickIdx :
         IF j \in RealTicks
           THEN /\ tickLog[j].scene = input_entry.scene
                /\ tickLog[j].inp = input_frame
           ELSE /\ NoKeyData(tickLog[j].inp)
                /\ tickLog[j].inp.frame_index = input_frame.frame_index
                /\ tickLog[j].inp.dt = input_frame.dt

\* C3 amended: one tick gets the real frame, it is the input entry's, in the
\* update pass; every other tick gets a neutral frame with the real frame's
\* frame_index, and with its dt in the update pass but dt = 0 when it is the
\* bootstrap tick of the draw pass.
C3_OneRealOthersNeutral ==
  tickLog # <<>> =>
    /\ input_entry = visible_entries(frameStack)[Len(visible_entries(frameStack))]
    /\ (pc # "tick" => Cardinality(RealTicks) = 1)
    /\ \A j \in TickIdx :
         IF j \in RealTicks
           THEN /\ tickLog[j].scene = input_entry.scene
                /\ tickLog[j].inp = input_frame
                /\ tickLog[j].phase = "update"
           ELSE /\ NoKeyData(tickLog[j].inp)
                /\ tickLog[j].inp.frame_index = input_frame.frame_index
                /\ tickLog[j].inp.dt =
                     (IF tickLog[j].phase = "update" THEN input_frame.dt
                      ELSE BootstrapDt)

\* a frame with a key press whose real tick and a bootstrap tick both ran
C3_Witness ==
  /\ FrameDrawn
  /\ input_frame.dt # BootstrapDt
  /\ \E j \in RealTicks : tickLog[j].inp.keys_pressed # {}
  /\ \E j \in TickIdx : tickLog[j].src = "boot"

\* C4: the stack changes only while the drained commands execute (and in the
\* initial change and the final clean, outside any frame); from the
\* input_entry() call to end_frame the stack is the one input_entry(),
\* update_entries() and visible_entries() all saw.
C4_StackChangesOnlyInDrain ==
  [][ /\ (stack' # stack => pc \in {"ready", "exec", "clean"})
      /\ (pc' \in {"tick", "begin", "draw", "end"} =>
            /\ stack' = frameStack'
            /\ input_entry' = input_entry_of(stack')
            /\ upd' = update_entries(stack'))
      /\ (pc' \in {"draw", "end"} => vis' = visible_entries(stack')) ]_vars

\* a frame that ticked and drew two scenes, then changed the stack in its drain
C4_Witness ==
  /\ pc = "pace"
  /\ Len(tickLog) >= 2
  /\ Len(DrawOps) >= 2
  /\ stack # frameStack

\* every update entry ticked, every visible entry drawn, end_frame called
FrameComplete ==
  /\ \A j \in 1..Len(update_entries(frameStack)) :
       \E r \in TickIdx : /\ tickLog[r].scene = update_entries(frameStack)[j].scene
                          /\ tickLog[r].phase = "update"
  /\ SceneSeq(DrawOps) = SceneSeq(visible_entries(frameStack))
  /\ backendLog # <<>>
  /\ backendLog[Len(backendLog)].op = "end_frame"

\* C5: pushing a command does not execute it; executed commands run in push
\* order, none twice (their serial numbers strictly increase), and only in
\* the command loop, after every tick and draw of that frame.
C5_DeferredFifoAtMostOnce ==
  [][ /\ (cmdSeq' # cmdSeq => lastExec' < cmdSeq')
      /\ (lastExec' # lastExec =>
            /\ pc = "exec"
            /\ lastExec' > lastExec
            /\ FrameComplete) ]_vars

\* two pushes executed by one drain, after the frame was ticked and drawn
C5_Witness ==
  /\ pc = "pace"
  /\ FrameComplete
  /\ Len(stack) = Len(frameStack) + 2
  /\ lastExec >= 2

\* C6: drain() returns the buffered commands in push order and leaves the
\* queue empty; what is pushed while the batch executes stays in the queue
\* and is not executed by this frame's command loop.
C6_DrainEmptiesQueueAndDefers ==
  [][ /\ (pc = "drain" => batch' = items /\ items' = <<>>)
      /\ (lastExec' # lastExec => lastExec' <= drainMark)
      /\ (pc' \in {"exec", "pace"} =>
            \A j \in 1..Len(items') : items'[j].n > drainMark') ]_vars

\* a command pushed by a hook during the batch is still queued after it
C6_Witness ==
  /\ pc = "pace"
  /\ lastExec >= 1
  /\ items # <<>>
  /\ items[1].n > drainMark

\* C7 as stated: every packet replayed is the one the latest tick of the
\* drawn entry's own scene returned.
C7_DrawnPacketIsLatestOfOwnScene ==
  \A j \in 1..Len(DrawOps) :
    /\ ticks[DrawOps[j].scene] >= 1
    /\ DrawOps[j].packet =
         [scene |-> DrawOps[j].scene, n |-> ticks[DrawOps[j].scene]]

\* C8 as stated: every visible entry is drawn; one never ticked before is
\* ticked once, with a neutral dt = 0 frame, and that tick leaves the frame's
\* dt and frame index alone.
C8_NeverTickedIsBootstrapped ==
  FrameDrawn =>
    /\ SceneSeq(DrawOps) = SceneSeq(visible_entries(frameStack))
    /\ \A j \in 1..Len(DrawOps) : ticks[DrawOps[j].scene] >= 1
    /\ \A j \in TickIdx :
         tickLog[j].phase = "draw" =>
           /\ tickLog[j].inp = InputFrameDefaults(frame_index, 0)
           /\ tickLog[j].dt = 0
    /\ dt = input_frame.dt
    /\ frame_index = input_frame.frame_index

TopOf(st) == st[Len(st)]

\* C9 as stated: under an opaque, non-blocking top the lower entries are not
\* drawn but are ticked.
C9_LowerEntriesStillTicked ==
  (FrameDrawn /\ Len(frameStack) >= 2
     /\ TopOf(frameStack).policy.is_opaque
     /\ ~TopOf(frameStack).policy.blocks_update) =>
    \A j \in 1..(Len(frameStack) - 1) :
      /\ frameStack[j].scene \notin DrawnScenes
      /\ frameStack[j].scene \in TickedScenes

\* C9 amended: under an opaque, non-blocking top the lower entries are
\* neither drawn nor ticked in that frame.
C9_LowerEntriesNeitherDrawnNorTicked ==
  (FrameDrawn /\ Len(frameStack) >= 2
     /\ TopOf(frameStack).policy.is_opaque
     /\ ~TopOf(frameStack).policy.blocks_update) =>
    /\ TickedScenes = {TopOf(frameStack).scene}
    /\ DrawnScenes = {TopOf(frameStack).scene}
    /\ \A j \in 1..(Len(frameStack) - 1) :
         /\ frameStack[j].scene \notin DrawnScenes
         /\ frameStack[j].scene \notin TickedScenes

C9_Witness ==
  /\ FrameDrawn
  /\ Len(frameStack) >= 2
  /\ TopOf(frameStack).policy.is_opaque
  /\ ~TopOf(frameStack).policy.blocks_update
  /\ TickedScenes # {}
  /\ DrawnScenes # {}

\* the stack positions that lie below some blocking entry
BelowBlocker(st) ==
  {j \in 1..Len(st) : \E k \in (j + 1)..Len(st) : st[k].policy.blocks_update}

\* C10 as stated: an entry below a blocking entry gets no tick of any kind.
C10_NoTickBelowBlocker ==
  FrameDrawn =>
    \A j \in BelowBlocker(frameStack) : frameStack[j].scene \notin TickedScenes

\* C10 amended: an entry below a blocking entry gets no tick in the update
\* pass; the only tick it can get is one bootstrap tick of the draw pass,
\* neutral and with dt = 0.
C10_OnlyBootstrapBelowBlocker ==
  FrameDrawn =>
    \A j \in BelowBlocker(frameStack) :
      /\ \A r \in TickIdx :
           tickLog[r].scene = frameStack[j].scene =>
             /\ tickLog[r].phase = "draw"
             /\ tickLog[r].src = "boot"
             /\ tickLog[r].dt = BootstrapDt
             /\ tickLog[r].inp = InputFrameDefaults(frame_index, BootstrapDt)
      /\ Cardinality({r \in TickIdx : tickLog[r].scene = frameStack[j].scene}) <= 1

\* an entry below a visible blocking entry got its bootstrap tick
C10_Witness ==
  /\ FrameDrawn
  /\ \E j \in BelowBlocker(frameStack) :
       \E r \in TickIdx : /\ tickLog[r].scene = frameStack[j].scene
                          /\ tickLog[r].src = "boot"

\* a frame is under way: frameStack is its stack, the logs are its logs
InFrame == pc \in {"tick", "begin", "draw", "end", "drain", "exec", "pace"}
OpaqueBlocking == [is_opaque |-> TRUE, blocks_update |-> TRUE]
\* the frame's stack has an opaque, blocking top over a default-policy entry
BlockedBelowTop(st) ==
  /\ Len(st) >= 2
  /\ TopOf(st).policy = OpaqueBlocking
  /\ st[Len(st) - 1].policy = DefaultPolicy

\* C11: while an opaque, update-blocking entry B is the top with a
\* default-policy entry A beneath it, visible_entries() and update_entries()
\* are exactly [B]; A is not ticked and no packet of A is drawn in the frame.
C11_OnlyOpaqueBlockingTopRuns ==
  (InFrame /\ BlockedBelowTop(frameStack)) =>
    LET A == frameStack[Len(frameStack) - 1]
        B == TopOf(frameStack)
    IN /\ visible_entries(frameStack) = <<B>>
       /\ update_entries(frameStack) = <<B>>
       /\ upd = <<B>>
       /\ (pc \notin {"tick", "begin"} => vis = <<B>>)
       /\ A.scene \notin TickedScenes
       /\ \A j \in 1..Len(DrawOps) :
            /\ DrawOps[j].scene = B.scene
            /\ DrawOps[j].packet.scene = B.scene

\* A has a cached packet from an earlier frame, and the frame drew B alone
C11_Witness ==
  /\ FrameDrawn
  /\ BlockedBelowTop(frameStack)
  /\ ticks[frameStack[Len(frameStack) - 1].scene] >= 1
  /\ DrawnScenes = {TopOf(frameStack).scene}
  /\ TickedScenes = {TopOf(frameStack).scene}

\* the command loop is about to run a push that names no policy, and it
\* does not fail
DefaultPush ==
  /\ pc = "exec"
  /\ batch # <<>>
  /\ Head(batch).c.k = "Push"
  /\ Head(batch).c.policy = None
  /\ pc' # "raised"

\* C12: a push without a policy gives the entry the non-opaque, non-blocking
\* policy; after it visible_entries() and update_entries() are what they
\* were, followed by the new entry, and input_entry() is the new entry.
C12_DefaultPushExtendsQueries ==
  [][ DefaultPush =>
        /\ Len(stack') = Len(stack) + 1
        /\ ~TopOf(stack').policy.is_opaque
        /\ ~TopOf(stack').policy.blocks_update
        /\ visible_entries(stack') = Append(visible_entries(stack), TopOf(stack'))
        /\ update_entries(stack') = Append(update_entries(stack), TopOf(stack'))
        /\ input_entry_of(stack') = TopOf(stack') ]_vars

\* a default push onto a stack whose top was opaque and blocking, hiding an
\* entry: both queries are the old top followed by the new entry
C12_Witness ==
  /\ pc \in {"exec", "pace"}
  /\ lastCmd = PushSceneCommand("menu", FALSE)
  /\ Len(stack) >= 3
  /\ stack[Len(stack) - 1].policy = OpaqueBlocking
  /\ Len(visible_entries(stack)) = 2
  /\ Len(update_entries(stack)) = 2
  /\ hookLog = <<Hook("on_enter", TopOf(stack).scene, Len(stack) - 1)>>

\* the command loop is about to run a pop
PopStep ==
  /\ pc = "exec"
  /\ batch # <<>>
  /\ Head(batch).c.k = "Pop"

\* C13: pop() on an empty stack raises nothing, calls no hook and leaves the
\* stack empty; on a non-empty stack it removes exactly the top entry and
\* calls on_exit of that entry's scene once, the rest staying as it was.
C13_PopRemovesTopOrNothing ==
  [][ PopStep =>
        /\ pc' # "raised"
        /\ err' = NoError
        /\ IF stack = <<>>
             THEN /\ stack' = <<>>
                  /\ hookLog' = <<>>
             ELSE /\ stack' = SubSeq(stack, 1, Len(stack) - 1)
                  /\ Len(hookLog') = 1
                  /\ hookLog'[1].h = "on_exit"
                  /\ hookLog'[1].scene = TopOf(stack).scene ]_vars

\* a second pop of one batch found the stack already empty
C13_Witness ==
  /\ pc \in {"exec", "pace"}
  /\ lastCmd = PopSceneCommand
  /\ lastExec >= 2
  /\ stack = <<>>
  /\ hookLog = <<>>
  /\ err = NoError

StackScenes(st) == {st[j].scene : j \in 1..Len(st)}
\* the first Len(st) hook calls of log are the exits of st's scenes, top first
ExitsTopDown(log, st) ==
  /\ Len(log) >= Len(st)
  /\ \A j \in 1..Len(st) :
       /\ log[j].h = "on_exit"
       /\ log[j].scene = st[Len(st) + 1 - j].scene

\* C14: clean() on a stack of N entries calls on_exit exactly N times, once
\* per entry, from the top of the stack to its bottom, and leaves the stack
\* empty; on an empty stack it calls no hook.
C14_CleanExitsTopToBottom ==
  [][ pc = "clean" =>
        /\ stack' = <<>>
        /\ Len(hookLog') = Len(stack)
        /\ ExitsTopDown(hookLog', stack) ]_vars

\* the final clean emptied a stack of three entries
C14_Witness ==
  /\ pc = "done"
  /\ stack = <<>>
  /\ Len(hookLog) = 3
  /\ Cardinality({hookLog[j].scene : j \in 1..Len(hookLog)}) = 3

\* change(scene_id) is called with an id the registry resolves: by the
\* command loop, or by run before its first frame
ChangeStep ==
  \/ /\ pc = "exec"
     /\ batch # <<>>
     /\ Head(batch).c.k = "Change"
     /\ pc' # "raised"
  \/ /\ pc = "ready"
     /\ pc' = "poll"

\* C15: change with a resolvable id calls on_exit of every current entry from
\* the top down, then on_enter of one newly created scene, every exit before
\* the enter; afterwards the stack is that one entry, with is_overlay false.
C15_ChangeExitsAllThenEntersOne ==
  [][ ChangeStep =>
        /\ Len(stack') = 1
        /\ ~stack'[1].is_overlay
        /\ stack'[1].scene \notin StackScenes(stack)
        /\ Len(hookLog') = Len(stack) + 1
        /\ ExitsTopDown(hookLog', stack)
        /\ hookLog'[Len(stack) + 1] = Hook("on_enter", stack'[1].scene, 0) ]_vars

\* a change command replaced a stack of two entries
C15_Witness ==
  /\ pc \in {"exec", "pace"}
  /\ lastCmd = ChangeSceneCommand("menu")
  /\ Len(stack) = 1
  /\ Len(hookLog) = 3
  /\ hookLog[3].h = "on_enter"

\* the command loop is about to run a push, and the push does not fail
PushStep ==
  /\ pc = "exec"
  /\ batch # <<>>
  /\ Head(batch).c.k = "Push"
  /\ pc' # "raised"

\* C16: a successful push calls one hook, on_enter of the new scene, while
\* the stack does not hold the new entry yet; it calls no hook of an entry
\* already in the stack and leaves those entries as they were, the new entry
\* becoming the top.
C16_PushEntersBeforeAppend ==
  [][ PushStep =>
        /\ Len(stack') = Len(stack) + 1
        /\ SubSeq(stack', 1, Len(stack)) = stack
        /\ TopOf(stack').scene \notin StackScenes(stack)
        /\ TopOf(stack').scene_id = Head(batch).c.scene_id
        /\ hookLog' = <<Hook("on_enter", TopOf(stack').scene, Len(stack))>> ]_vars

\* a push command put a third entry on the stack
C16_Witness ==
  /\ pc \in {"exec", "pace"}
  /\ lastCmd # None
  /\ lastCmd.k = "Push"
  /\ Len(stack) = 3
  /\ hookLog = <<Hook("on_enter", TopOf(stack).scene, 2)>>

\* the command loop is about to run a push or a change whose id the factory
\* cannot resolve
CreateFailsStep ==
  /\ pc = "exec"
  /\ batch # <<>>
  /\ Head(batch).c.k \in {"Push", "Change"}
  /\ CreateFails(Head(batch).c.scene_id)

\* C17: when the factory fails for the id given to push or change, the error
\* leaves the command and its caller, the command loop of run; no enter hook
\* is called, and for push the stack is left as it was.
C17_FactoryFailurePropagates ==
  [][ CreateFailsStep =>
        /\ pc' = "raised"
        /\ err' # NoError
        /\ \A j \in 1..Len(hookLog') : hookLog'[j].h # "on_enter"
        /\ (Head(batch).c.k = "Push" =>
              /\ stack' = stack
              /\ hookLog' = <<>>) ]_vars

\* a push of an unknown id failed on a stack of two entries
C17_Witness ==
  /\ pc = "raised"
  /\ err # NoError
  /\ lastCmd = PushSceneCommand("nope", FALSE)
  /\ Len(stack) = 2
  /\ stack = frameStack
  /\ hookLog = <<>>

\* a frame polls no quit event and resolves input_entry() on an empty stack
EmptyStackFrame ==
  /\ pc = "poll"
  /\ running
  /\ stack = <<>>
  /\ pc' # "poll"
  /\ ~input_frame'.quit

\* run has left the loop because input_entry() was None
EmptyExit ==
  /\ pc \in {"clean", "done"}
  /\ input_frame # None
  /\ ~input_frame.quit
  /\ input_entry = None

\* C18: when the stack is empty as a frame resolves input_entry(), the loop
\* ends there: that frame ticks no scene, draws nothing and drains no
\* command, no further frame starts, and run returns without raising.
C18_EmptyStackEndsRunCleanly ==
  [][ /\ (EmptyStackFrame =>
            /\ pc' = "clean"
            /\ input_entry' = None
            /\ tickLog' = <<>>
            /\ backendLog' = <<>>
            /\ UNCHANGED <<ticks, packet_cache, items, batch, drainMark,
                           lastExec, frame_index, err>>)
      /\ ((EmptyExit /\ pc = "clean") =>
            /\ pc' = "done"
            /\ err' = NoError
            /\ hookLog' = <<>>
            /\ UNCHANGED <<ticks, tickLog, backendLog, items, batch,
                           drainMark, lastExec, frame_index>>)
      /\ (pc = "done" => vars' = vars) ]_vars

\* run returned after a later frame found the stack emptied by a pop
C18_Witness ==
  /\ pc = "done"
  /\ EmptyExit
  /\ frame_index >= 1
  /\ lastCmd = PopSceneCommand
  /\ tickLog = <<>>
  /\ backendLog = <<>>
  /\ err = NoError

\* a frame polls events that contain an OS quit event
QuitPolled ==
  /\ pc = "poll"
  /\ running
  /\ pc' # "poll"
  /\ input_frame'.quit

\* C19 as stated: on an OS quit event run either enqueues a quit command and
\* goes on to the command drain, or breaks out of the loop at once without
\* enqueuing anything; never both.
C19_ExactlyOneQuitVariant ==
  [][ QuitPolled =>
        /\ (items' # items \/ pc' = "clean")
        /\ ~(items' # items /\ pc' = "clean") ]_vars

\* the I/O of a command fails while the command loop runs it
IOFailureStep ==
  /\ pc = "exec"
  /\ batch # <<>>
  /\ Head(batch).c.k \in {"Screenshot", "WriteText"}
  /\ err' \in {WriteTextRaises}

\* C20 as stated: a failure of the I/O a command does is reported and never
\* aborts the frame loop; the command loop goes on and run continues with
\* the next frame.
C20_IOFailureKeepsLoopRunning ==
  [][ IOFailureStep => pc' \in {"exec", "pace"} ]_vars

\* no backend call was made, no scene created or entered, no frame executed
NothingStarted ==
  /\ stack = <<>>
  /\ backendLog = <<>>
  /\ hookLog = <<>>
  /\ tickLog = <<>>
  /\ nextScene = 1
  /\ entered = NeverTicked
  /\ ticks = NeverTicked
  /\ frame_index = 0
  /\ ~running

\* C21: constructing Game without a backend raises ValueError, and run
\* without a window configuration raises ValueError before any backend call,
\* before any scene is created or entered and before any frame.
C21_ConfigErrorsBeforeLoop ==
  [][ /\ ((pc = "new" /\ ~cfg.backend) =>
            /\ pc' = "raised"
            /\ err' = "ValueError"
            /\ NothingStarted')
      /\ ((pc = "ready" /\ ~cfg.window) =>
            /\ pc' = "raised"
            /\ err' = "ValueError"
            /\ NothingStarted') ]_vars

\* run raised for the missing window of a game that has a backend
C21_Witness ==
  /\ pc = "raised"
  /\ err = "ValueError"
  /\ cfg.backend
  /\ ~cfg.window

BackendOps(name) == SelectSeq(backendLog, LAMBDA o : o.op = name)

\* C22: when the initial scene requests quit during its first update (no
\* quit event polled), that frame is still completed: when run returns the
\* scene was entered once, ticked, begin_frame and end_frame were called, the
\* frame index advanced, and the scene was exited.
C22_QuitInFirstUpdateCompletesFrame ==
  (pc = "done" /\ ~running /\ frame_index <= 1) =>
    /\ err = NoError
    /\ frame_index = 1
    /\ entered[1] = 1
    /\ ticks[1] >= 1
    /\ Len(BackendOps("begin_frame")) >= 1
    /\ Len(BackendOps("end_frame")) >= 1
    /\ exited[1] = 1

\* the scene called game.quit() in its first tick; no command ever ran
C22_Witness ==
  /\ pc = "done"
  /\ ~running
  /\ frame_index = 1
  /\ cmdSeq = 0
  /\ ticks[1] = 1
  /\ exited[1] = 1

\* the command loop is about to run a QuitCommand
QuitStep ==
  /\ pc = "exec"
  /\ batch # <<>>
  /\ Head(batch).c.k = "Quit"

\* C23: SceneAdapter.quit() only clears the running flag of the game: it
\* adds and removes no entry, calls no hook and leaves visible_entries(),
\* update_entries() and input_entry() as they were.
C23_QuitOnlyClearsRunning ==
  [][ QuitStep =>
        /\ running' = FALSE
        /\ stack' = stack
        /\ hookLog' = <<>>
        /\ entered' = entered
        /\ exited' = exited
        /\ err' = NoError
        /\ visible_entries(stack') = visible_entries(stack)
        /\ update_entries(stack') = update_entries(stack)
        /\ input_entry_of(stack') = input_entry_of(stack) ]_vars

\* a QuitCommand ran on a stack of two entries
C23_Witness ==
  /\ pc \in {"exec", "pace"}
  /\ lastCmd = QuitCommand
  /\ ~running
  /\ Len(stack) = 2
  /\ hookLog = <<>>

UpdateTicks == SelectSeq(tickLog, LAMBDA r : r.phase = "update")

\* C24: at the end of a frame the loop sleeps exactly when fps > 0 and dt is
\* below the target period 1000 / fps (in ms), and then for the remainder;
\* with fps = 0 it never sleeps. Whatever dt is, the iteration has ticked
\* each update entry once, and pacing adds no tick.
C24_PacingSleepsRemainderOnly ==
  [][ pc = "pace" =>
        LET target == IF cfg.fps > 0 THEN 1000 \div cfg.fps ELSE 0
        IN /\ slept' = (IF cfg.fps > 0 /\ dt < target THEN target - dt ELSE 0)
           /\ (cfg.fps = 0 => slept' = 0)
           /\ (slept' > 0 => dt + slept' = target)
           /\ \A t \in 0..(target + 1) :
                SleepFor(TargetDt(cfg.fps), t) =
                  (IF cfg.fps > 0 /\ t < target THEN target - t ELSE 0)
           /\ SceneSeq(UpdateTicks) = SceneSeq(update_entries(frameStack))
           /\ ticks' = ticks
           /\ tickLog' = tickLog
           /\ frame_index' = frame_index + 1 ]_vars

\* at 500 fps (2 ms) a 1 ms frame was followed by a sleep of 1 ms, and the
\* next frame, 3 ms long, ticked its two update entries once each
C24_Witness ==
  /\ FrameDrawn
  /\ cfg.fps = 500
  /\ slept = 1
  /\ dt = 3
  /\ Len(UpdateTicks) = 2
  /\ Len(update_entries(frameStack)) = 2

\* the stack st with the is_overlay flag set at the positions of S only
WithOverlay(st, S) ==
  [j \in 1..Len(st) |-> [st[j] EXCEPT !.is_overlay = (j \in S)]]

SceneOrNone(e) == IF e = None THEN 0 ELSE e.scene

RECURSIVE Flatten(_)
\* the events of all polled batches, oldest first
Flatten(log) ==
  IF log = <<>> THEN <<>> ELSE Head(log).events \o Flatten(Tail(log))

KeyEventsOf(evs, k) ==
  SelectSeq(evs, LAMBDA e : e.type \in {"KEYDOWN", "KEYUP"} /\ e.key = k)

\* the most recent KEYDOWN or KEYUP for k in evs is a KEYDOWN
HeldAfter(evs, k) ==
  LET s == KeyEventsOf(evs, k)
  IN s # <<>> /\ s[Len(s)].type = "KEYDOWN"

AllEvents == Flatten(backendLog)
EarlierEvents == Flatten(SubSeq(backendLog, 1, Len(backendLog) - 1))
ThisBatch == backendLog[Len(backendLog)].events

\* k went from not held to held at some event of this frame
PressedBy(k) ==
  \E j \in 1..Len(ThisBatch) :
    /\ ThisBatch[j] = [type |-> "KEYDOWN", key |-> k]
    /\ ~HeldAfter(EarlierEvents \o SubSeq(ThisBatch, 1, j - 1), k)

\* k went from held to not held at some event of this frame
ReleasedBy(k) ==
  \E j \in 1..Len(ThisBatch) :
    /\ ThisBatch[j] = [type |-> "KEYUP", key |-> k]
    /\ HeldAfter(EarlierEvents \o SubSeq(ThisBatch, 1, j - 1), k)

\* C26: a key is in keys_down of frame N exactly when the most recent KEYDOWN
\* or KEYUP for it, over all events of the frames up to and including N, is a
\* KEYDOWN; a frame without events for a held key still reports it held.
C26_HeldKeysPersist ==
  input_frame # None =>
    /\ input_frame.keys_down = {k \in InputKeys : HeldAfter(AllEvents, k)}
    /\ input_frame.keys_down = down
    /\ input_frame.frame_index = Len(backendLog) - 1

\* second frame without events, K held since the first
C26_Witness ==
  /\ pc = "input"
  /\ Len(backendLog) = 2
  /\ backendLog[2].events = <<>>
  /\ input_frame # None
  /\ "K" \in input_frame.keys_down

\* C27: keys_pressed is exactly the keys that went from not held to held
\* during this frame (a KEYDOWN for a held key is not reported again) and
\* keys_released is exactly the keys that went from held to not held during
\* this frame.
C27_PressedReleasedAreTransitions ==
  input_frame # None =>
    /\ input_frame.keys_pressed = {k \in InputKeys : PressedBy(k)}
    /\ input_frame.keys_released = {k \in InputKeys : ReleasedBy(k)}

\* ---------------------------------------------------------------------- C28
BounceStep == pc = "bounce" /\ pc' = "bounced"
AtOrBeyondTop == obj.y <= bounds.top
AtOrBeyondBottom == obj.y + obj.height >= bounds.bottom
\* the object is no taller than the bounds, so it can be clamped inside
Fits == obj.height <= bounds.bottom - bounds.top

\* C28: after VerticalBounce.apply the object lies inside the bounds
\* (top <= y and y + height <= bottom); vy is negated when the object was at
\* or beyond the top or at or beyond the bottom; an object strictly inside
\* keeps its position and vy.  Stated for objects that fit between the
\* bounds, the only ones that can lie inside at all.
C28_BounceClampsAndInverts ==
  [][(BounceStep /\ Fits) =>
       /\ bounds.top <= obj'.y
       /\ obj'.y + obj'.height <= bounds.bottom
       /\ obj'.height = obj.height
       /\ (AtOrBeyondTop \/ AtOrBeyondBottom) => obj'.vy = -obj.vy
       /\ ~(AtOrBeyondTop \/ AtOrBeyondBottom) => obj' = obj]_vars

\* ---------------------------------------------------------------------- C29
\* position of scene s in stack st
PosIn(st, s) == CHOOSE j \in 1..Len(st) : st[j].scene = s
\* the scenes of seq lie in st at strictly increasing positions
BottomToTop(seq, st) ==
  \A a \in 1..Len(seq) : \A b \in 1..Len(seq) :
    a < b => PosIn(st, seq[a]) < PosIn(st, seq[b])
BeginOp == [op |-> "begin_frame"]
EndOp == [op |-> "end_frame"]
\* the backend calls of a frame that has replayed the first n visible entries
Bracket(n) ==
  /\ Len(backendLog) >= n + 1
  /\ backendLog[1] = BeginOp
  /\ \A j \in 1..n :
       /\ backendLog[j + 1].op = "draw_packet"
       /\ backendLog[j + 1].scene = visible_entries(frameStack)[j].scene
\* where the frame is, and what it has done by then
FrameOrder ==
  /\ InFrame => /\ input_frame.frame_index = frame_index
                /\ frameStack = stack \/ pc \in {"exec", "pace"}
  /\ pc = "tick" =>
       /\ backendLog = <<>>
       /\ upd = update_entries(frameStack)
       /\ SceneSeq(tickLog) = SceneSeq(SubSeq(upd, 1, i - 1))
  /\ pc \in {"begin", "draw", "end", "drain", "exec", "pace"} =>
       /\ SceneSeq(UpdateTicks) = SceneSeq(update_entries(frameStack))
       /\ BottomToTop(SceneSeq(UpdateTicks), frameStack)
       /\ \A j \in TickIdx :
            tickLog[j].phase = "update" <=> j <= Len(UpdateTicks)
  /\ pc = "begin" => backendLog = <<>>
  /\ pc = "draw" =>
       /\ vis = visible_entries(frameStack)
       /\ Bracket(i - 1)
       /\ Len(backendLog) = i
  /\ pc = "end" =>
       /\ Bracket(Len(visible_entries(frameStack)))
       /\ Len(backendLog) = Len(visible_entries(frameStack)) + 1
  /\ pc \in {"drain", "exec", "pace"} =>
       /\ Bracket(Len(visible_entries(frameStack)))
       /\ Len(backendLog) = Len(visible_entries(frameStack)) + 2
       /\ backendLog[Len(backendLog)] = EndOp
       /\ BottomToTop(SceneSeq(DrawOps), frameStack)
  /\ pc \in {"tick", "begin", "draw", "end"} => batch = <<>>

\* C29: every completed frame follows one order: poll and build the input
\* frame, tick all update_entries() bottom-to-top, begin_frame once, replay
\* the visible_entries() bottom-to-top, end_frame once, drain and execute
\* the commands, pace, advance the frame index; a packet is replayed only
\* between begin_frame and end_frame, which alternate.
C29_FrameFollowsFixedOrder ==
  [][ /\ FrameOrder'
      /\ (pc = "poll" /\ pc' = "tick") =>
            \E ev \in EventBatches :
              input_frame' = build(down, ev, frame_index, dt')
      /\ tickLog' # tickLog /\ pc # "poll" =>
            pc \in {"tick", "draw"} /\ Len(tickLog') = Len(tickLog) + 1
      /\ backendLog' # backendLog /\ pc \notin {"poll", "ready"} =>
            /\ pc \in {"begin", "draw", "end"}
            /\ Len(backendLog') = Len(backendLog) + 1
      /\ items' # items /\ Len(items') < Len(items) => pc = "drain"
      /\ lastExec' # lastExec =>
            pc = "exec" /\ backendLog[Len(backendLog)] = EndOp
      /\ slept' # slept => pc = "pace"
      /\ frame_index' # frame_index =>
            pc = "pace" /\ pc' = "poll" /\ frame_index' = frame_index + 1
    ]_vars

\* the second frame, over two visible, updated entries, has run the command
\* issued in it and has been paced; the next frame is about to start
C29_Witness ==
  /\ pc = "poll"
  /\ frame_index = 2
  /\ Len(UpdateTicks) = 2
  /\ Len(DrawOps) = 2
  /\ backendLog[Len(backendLog)] = EndOp
  /\ cmdSeq >= 2
  /\ lastExec = cmdSeq

\* ---------------------------------------------------------------------- C30
\* C30: a QuitCommand executed in the drain of frame K does not interrupt
\* the frame: it only clears the running flag, the remaining commands of the
\* drained batch execute in order, the loop then ends without a further
\* poll, tick or draw, and the entries still on the stack are exited
\* top-to-bottom before run returns.
C30_QuitCommandFinishesFrame ==
  [][ /\ QuitStep =>
            /\ running' = FALSE
            /\ batch' = Tail(batch)
            /\ lastExec' = Head(batch).n
            /\ pc' = (IF Tail(batch) = <<>> THEN "pace" ELSE "exec")
            /\ UNCHANGED <<stack, items, frame_index, err>>
      /\ (pc = "exec" /\ ~running /\ batch # <<>>) =>
            /\ running' = FALSE
            /\ batch' = Tail(batch)
            /\ lastExec' = Head(batch).n
            /\ lastCmd' = Head(batch).c
            /\ pc' = (IF err' # NoError THEN "raised"
                      ELSE IF Tail(batch) = <<>> THEN "pace" ELSE "exec")
            /\ UNCHANGED <<frame_index, tickLog, backendLog, ticks>>
      /\ (pc = "pace" /\ ~running) =>
            /\ pc' = "poll"
            /\ UNCHANGED <<running, stack, tickLog, backendLog, ticks>>
      /\ (pc = "poll" /\ ~running) =>
            /\ pc' = "clean"
            /\ UNCHANGED <<running, stack, frame_index, input_frame, tickLog,
                           backendLog, ticks, items, batch>>
      /\ (pc = "clean" /\ ~running) =>
            /\ pc' = "done"
            /\ stack' = <<>>
            /\ Len(hookLog') = Len(stack)
            /\ ExitsTopDown(hookLog', stack)
            /\ UNCHANGED <<tickLog, backendLog, ticks, frame_index>>
    ]_vars

\* a QuitCommand has just run over a stack of two entries, and the batch
\* drained with it still holds a command
C30_Witness ==
  /\ pc = "exec"
  /\ ~running
  /\ lastCmd = QuitCommand
  /\ batch # <<>>
  /\ Len(stack) = 2

\* ---------------------------------------------------------------------- C31
\* every input frame handed to a scene in the current log carries index n
TicksCarry(n) == \A j \in TickIdx : tickLog[j].inp.frame_index = n

\* C31: the frame index starts at 0 and grows by exactly 1 per iteration
\* that runs to completion; every input frame handed to a scene within an
\* iteration (real, neutral or bootstrap) carries that iteration's index, and
\* a new iteration's index is above every index handed out before.
C31_FrameIndexCountsIterations ==
  [][ /\ pc \in {"new", "ready"} => frame_index = 0 /\ frame_index' = 0
      /\ pc' \in {"tick", "begin", "draw", "end", "drain", "exec", "pace"} =>
           /\ input_frame'.frame_index = frame_index'
           /\ \A j \in 1..Len(tickLog') :
                tickLog'[j].inp.frame_index = frame_index'
      /\ (pc = "poll" /\ pc' = "tick") =>
           \A j \in TickIdx : tickLog[j].inp.frame_index < frame_index
      /\ frame_index' # frame_index =>
           /\ pc = "pace"
           /\ frame_index' = frame_index + 1
           /\ TicksCarry(frame_index)
      /\ (pc = "pace") => frame_index' = frame_index + 1
    ]_vars

\* a later iteration has handed a real and a bootstrap frame to scenes and
\* is about to advance the index
C31_Witness ==
  /\ pc = "pace"
  /\ frame_index >= 1
  /\ {"real", "boot"} \subseteq {tickLog[j].src : j \in TickIdx}

\* ---------------------------------------------------------------------- C32
\* C32: every command pushed while run is running has been executed when
\* run returns, whatever ended the loop: none is left in the queue.
C32_NoCommandLeftWhenRunReturns ==
  pc = "done" => items = <<>> /\ batch = <<>> /\ lastExec = cmdSeq

\* ---------------------------------------------------------------------- C33
\* the ticks of the frame's log that went to scene s
TicksOf(s) == {j \in TickIdx : tickLog[j].scene = s}

\* C33: for every non-empty stack input_entry() is the last, topmost element
\* of update_entries(), whatever the policies; once the update pass of a
\* frame is over the input entry's scene has been ticked in it, once, with
\* the real input frame.
C33_InputEntryIsTickedWithRealInput ==
  /\ stack # <<>> =>
       /\ update_entries(stack) # <<>>
       /\ input_entry_of(stack) =
            update_entries(stack)[Len(update_entries(stack))]
       /\ input_entry_of(stack) = TopOf(stack)
  /\ pc \in {"begin", "draw", "end", "drain", "exec", "pace"} =>
       /\ input_entry = TopOf(frameStack)
       /\ Cardinality(TicksOf(input_entry.scene)) = 1
       /\ \A j \in TicksOf(input_entry.scene) :
            /\ tickLog[j].phase = "update"
            /\ tickLog[j].src = "real"
            /\ tickLog[j].inp = input_frame
            /\ tickLog[j].dt = dt

\* a frame over three entries whose top blocks updates and is opaque: only
\* the top was ticked, with a key event in the real frame
C33_Witness ==
  /\ pc = "begin"
  /\ Len(frameStack) = 3
  /\ TopOf(frameStack).policy = OpaqueBlocking
  /\ Len(tickLog) = 1
  /\ tickLog[1].inp.keys_pressed # {}

\* ---------------------------------------------------------------------- C34
\* the scenes created so far
Created == 1..(nextScene - 1)
\* the hook calls are balanced against the stack
Balanced ==
  /\ \A s \in StackScenes(stack) : entered[s] = 1 /\ exited[s] = 0
  /\ \A s \in Created \ StackScenes(stack) : entered[s] = 1 /\ exited[s] = 1
  /\ \A s \in Scenes : exited[s] <= entered[s] /\ entered[s] <= 1
  /\ \A j \in 1..Len(stack) : \A k \in 1..Len(stack) :
       stack[j].scene = stack[k].scene => j = k
\* a step in which the stack operations run
StackOpStep == pc \in {"ready", "exec", "clean"}

\* C34: under any sequence of push, pop, change and clean every scene on the
\* stack has been entered exactly once and never exited, every scene that
\* has left the stack has been exited exactly once, no scene is exited twice
\* or without having been entered, and when on_exit runs its scene is no
\* longer among the entries of the stack.
C34_LifecycleBalance ==
  [][ /\ Balanced'
      /\ StackOpStep =>
           \A j \in 1..Len(hookLog') :
             hookLog'[j].h = "on_exit" =>
               /\ hookLog'[j].scene \in StackScenes(stack)
               /\ hookLog'[j].seen < Len(stack)
               /\ \A k \in 1..hookLog'[j].seen :
                    stack[k].scene # hookLog'[j].scene
               /\ entered[hookLog'[j].scene] = 1
               /\ exited[hookLog'[j].scene] = 0
      /\ ~StackOpStep => UNCHANGED <<stack, entered, exited>>
    ]_vars

\* after the initial change and a push, a change has exited both scenes,
\* top first, and entered a third
C34_Witness ==
  /\ StackScenes(stack) = {3}
  /\ exited = [s \in Scenes |-> IF s \in {1, 2} THEN 1 ELSE 0]
  /\ entered = [s \in Scenes |-> IF s \in {1, 2, 3} THEN 1 ELSE 0]
  /\ lastCmd = ChangeSceneCommand("menu")
  /\ Len(hookLog) = 3

\* ---------------------------------------------------------------------- C35
\* C35: no scene tick receives an input frame whose quit flag is set; a frame
\* whose polled events hold a quit event ticks no scene and draws nothing.
C35_QuitFrameTicksNothing ==
  [][ /\ \A j \in 1..Len(tickLog') : ~tickLog'[j].inp.quit
      /\ pc' \in {"tick", "begin", "draw", "end", "drain", "exec", "pace"} =>
           ~input_frame'.quit
      /\ (pc = "poll" /\ running /\ input_frame'.quit) =>
           /\ pc' = "clean"
           /\ tickLog' = <<>>
           /\ backendLog' = <<>>
           /\ UNCHANGED <<ticks, packet_cache, stack, frame_index>>
      /\ (pc = "clean" /\ input_frame # None /\ input_frame.quit) =>
           /\ pc' = "done"
           /\ UNCHANGED <<ticks, packet_cache, tickLog, backendLog>>
    ]_vars

\* a later frame polled a quit event over a stack of two entries and ended
\* without a tick or a backend call
C35_Witness ==
  /\ pc = "clean"
  /\ input_frame # None
  /\ input_frame.quit
  /\ frame_index >= 1
  /\ Len(stack) = 2
  /\ tickLog = <<>>
  /\ backendLog = <<>>

\* ---------------------------------------------------------------------- C36
\* the record of the tick this step has made
NewTick == tickLog'[Len(tickLog')]
\* this step ticks a scene
TickStep == pc \in {"tick", "draw"} /\ Len(tickLog') = Len(tickLog) + 1

ChangeFailsStep ==
  \/ /\ pc = "exec"
     /\ batch # <<>>
     /\ Head(batch).c.k = "Change"
     /\ CreateFails(Head(batch).c.scene_id)
  \/ /\ pc = "ready"
     /\ pc' = "raised"
     /\ cfg.window

\* C37: change is not atomic when the factory fails: the error reaches the
\* caller after every entry that was on the stack has been exited, top
\* first, and removed, so the stack is empty then, and no scene was entered.
C37_FailedChangeLeavesEmptyStack ==
  [][ ChangeFailsStep =>
        /\ pc' = "raised"
        /\ err' = "KeyError"
        /\ stack' = <<>>
        /\ Len(hookLog') = Len(stack)
        /\ ExitsTopDown(hookLog', stack)
        /\ \A s \in StackScenes(stack) : exited'[s] = 1
        /\ entered' = entered
        /\ nextScene' = nextScene ]_vars

\* a change to an unknown id failed on a stack of two entries, both exited
C37_Witness ==
  /\ pc = "raised"
  /\ err = "KeyError"
  /\ lastCmd = ChangeSceneCommand("nope")
  /\ stack = <<>>
  /\ Len(frameStack) = 2
  /\ Len(hookLog) = 2
  /\ \A s \in StackScenes(frameStack) : exited[s] = 1

\* ---------------------------------------------------------------------- C38
\* a command's execute raises in the command loop
ExecRaisesStep == pc = "exec" /\ pc' = "raised"
\* the sequence numbers of the commands in q
Numbers(q) == {q[j].n : j \in 1..Len(q)}

\* C38: when a command raises while the drained batch executes, the commands
\* behind it in the batch are not executed and are not in the queue either,
\* the error leaves run, and the final clean is skipped: run takes no
\* further step and the scenes left on the stack get no on_exit.
C38_RaisingCommandAbortsRun ==
  [][ /\ ExecRaisesStep =>
           /\ err' # NoError
           /\ lastExec' = Head(batch).n
           /\ batch' = Tail(batch)
           /\ items' = items
           /\ Numbers(batch') \cap Numbers(items') = {}
           /\ \A n \in Numbers(batch') : n > lastExec'
           /\ \A s \in StackScenes(stack') : exited'[s] = 0
           /\ Head(batch).c.k # "Change" =>
                stack' = stack /\ exited' = exited /\ hookLog' = <<>>
      /\ pc # "raised"
    ]_vars

\* a command raised with another command behind it in the batch and two
\* scenes on the stack, neither exited
C38_Witness ==
  /\ pc = "raised"
  /\ err = WriteTextRaises
  /\ batch # <<>>
  /\ lastExec < cmdSeq
  /\ Len(stack) = 2
  /\ \A s \in StackScenes(stack) : exited[s] = 0

\* ---------------------------------------------------------------------- C39
\* C39: every packet replayed for a stack entry was returned by a tick of
\* that entry's own scene: the packet cache never serves the packet of
\* another, discarded scene to a newly pushed one.
C39_ReplayedPacketIsOwn ==
  \A j \in 1..Len(DrawOps) : DrawOps[j].packet.scene = DrawOps[j].scene

\* ---------------------------------------------------------------------- C40
\* every entry of st carries the default policy
AllDefault(st) == \A j \in 1..Len(st) : st[j].policy = DefaultPolicy
\* the stack is changed by the initial change or by one of the commands
\* PushSceneCommand, PopSceneCommand, ChangeSceneCommand
StockStackStep ==
  \/ pc = "ready"
  \/ /\ pc = "exec"
     /\ batch # <<>>
     /\ \/ Head(batch).c.k \in {"Pop", "Change"}
        \/ Head(batch).c.k = "Push" /\ Head(batch).c.policy = None
\* what a frame over default-policy entries has done when it has drawn
DefaultFrame ==
  (FrameDrawn /\ AllDefault(frameStack)) =>
    /\ visible_entries(frameStack) = frameStack
    /\ update_entries(frameStack) = frameStack
    /\ SceneSeq(tickLog) = SceneSeq(frameStack)
    /\ \A j \in TickIdx : tickLog[j].phase = "update" /\ tickLog[j].src # "boot"
    /\ SceneSeq(DrawOps) = SceneSeq(frameStack)

\* C40: the initial change and the commands PushSceneCommand,
\* PopSceneCommand and ChangeSceneCommand only ever add entries with the
\* default non-opaque, non-blocking policy; over a stack of such entries
\* visible_entries() and update_entries() are the whole stack, every scene
\* on it is ticked in the update pass and drawn, and no bootstrap tick is
\* made.
C40_StockCommandsKeepDefaultPolicies ==
  [][ /\ StockStackStep =>
           \A j \in 1..Len(stack') :
             \/ stack'[j].policy = DefaultPolicy
             \/ j <= Len(stack) /\ stack'[j] = stack[j]
      /\ (StockStackStep /\ AllDefault(stack)) => AllDefault(stack')
      /\ AllDefault(stack') =>
           /\ visible_entries(stack') = stack'
           /\ update_entries(stack') = stack'
      /\ DefaultFrame'
      /\ (pc = "draw" /\ AllDefault(frameStack)) => tickLog' = tickLog
    ]_vars

\* a frame over three default-policy entries has ticked and drawn all three
C40_Witness ==
  /\ FrameDrawn
  /\ Len(frameStack) = 3
  /\ AllDefault(frameStack)
  /\ Len(tickLog) = 3
  /\ Len(DrawOps) = 3

====
